---- MODULE Spec2Model ----
(***************************************************************************)
(* A model of quran_verse_fetcher.py: InputValidator.validate_input,       *)
(* QuranAPI.get_verse / _make_request, OutputFormatter.format_verse /      *)
(* save_to_file, the one-shot path of main and run_interactive_mode.       *)
(*                                                                         *)
(* Strings the program parses are sequences of one-character strings.      *)
(* Python dicts are functions whose DOMAIN is the set of keys present.     *)
(***************************************************************************)
EXTENDS Integers, Sequences, FiniteSets, TLC

VARIABLES
    pc,             \* position of the running program
    user_input,     \* the string handed to validate_input
    given,          \* how user_input was written
    vresult,        \* what validate_input returned or raised
    verse_data,     \* the record handed to format_verse
    output_format,  \* the mode handed to format_verse
    formatted,      \* the lines format_verse joined, None before it ran
    caller,         \* who runs: "get_verse", "main" or "interactive"
    json_error,     \* the exception class response.json() raises here
    call,           \* get_verse's arguments
    http_log,       \* the URLs this call of get_verse has requested
    arabic_response,\* what the Arabic request met
    trans_response, \* what the translation request met
    result,         \* the record get_verse is building
    raised,         \* the exception that left get_verse
    stderr,         \* what the latest step wrote to sys.stderr
    args,           \* main's parsed command line
    exit_status,    \* the status the process ended with, None while it runs
    stdout,         \* what the latest step printed
    saved,          \* the content of the output file, None if not written
    iterations,     \* passes of the interactive loop begun
    translation_input,  \* the answer at the translation prompt
    format_input,   \* the answer at the format prompt
    continue_input, \* the answer at the continue prompt
    prompt_raised   \* the exception the latest input() raised, None if none

vvars == <<user_input, given, vresult>>
fvars == <<verse_data, output_format, formatted>>
gvars == <<call, http_log, arabic_response, trans_response, result, raised>>
mvars == <<args, exit_status, saved>>
ivars == <<iterations, translation_input, format_input, continue_input,
           prompt_raised>>
env == <<caller, json_error>>
vars == <<pc, env, vvars, fvars, gvars, stderr, stdout, mvars, ivars>>

\* Python's None and a value that is present
None == <<>>
Some(x) == <<x>>
IsNone(o) == o = <<>>
The(o) == o[1]

\* d.get(k, default) of a dict
Get(d, k, default) == IF k \in DOMAIN d THEN d[k] ELSE default

EmptyDict == <<>>

\* the three values of output_format
ModeArabic == <<"a", "r", "a", "b", "i", "c">>
ModeTranslation == <<"t", "r", "a", "n", "s", "l", "a", "t", "i", "o", "n">>
ModeBoth == <<"b", "o", "t", "h">>

(***************************************************************************)
(* Bounds of the model.                                                    *)
(***************************************************************************)
ChapterOver == 2    \* chapters probed above the last one
VerseOver == 2      \* verses probed above a chapter's count
MaxPad == 1         \* whitespace characters put around a reference
MaxJunkLen == 4     \* length of the arbitrary strings tried

(***************************************************************************)
(* Characters and the string primitives validate_input uses.               *)
(***************************************************************************)
DigitChars == <<"0", "1", "2", "3", "4", "5", "6", "7", "8", "9">>

IsDigit(ch) == \E i \in 1..10 : DigitChars[i] = ch

DigitVal(ch) == (CHOOSE i \in 1..10 : DigitChars[i] = ch) - 1

\* str.strip() removes these; the others of Python's whitespace behave alike
Whitespace == {" ", "\n"}

RECURSIVE lstrip(_)
lstrip(s) ==
    IF s # <<>> /\ Head(s) \in Whitespace THEN lstrip(Tail(s)) ELSE s

RECURSIVE rstrip(_)
rstrip(s) ==
    IF s # <<>> /\ s[Len(s)] \in Whitespace
    THEN rstrip(SubSeq(s, 1, Len(s) - 1))
    ELSE s

\* a strip that forgets the right end
strip_LeftOnly(s) == lstrip(s)

strip(s) == rstrip(lstrip(s))

\* int() of a string of decimal digits
RECURSIVE int(_)
int(ds) ==
    IF ds = <<>> THEN 0
    ELSE 10 * int(SubSeq(ds, 1, Len(ds) - 1)) + DigitVal(ds[Len(ds)])

\* f"{n}" of a non-negative integer
RECURSIVE str(_)
str(n) ==
    IF n < 10 THEN <<DigitChars[n + 1]>>
    ELSE Append(str(n \div 10), DigitChars[(n % 10) + 1])

\* \d* where the pattern has \d+
AllDigits_OrEmpty(s) == \A i \in 1..Len(s) : IsDigit(s[i])

AllDigits(s) == s # <<>> /\ \A i \in 1..Len(s) : IsDigit(s[i])

\* the text $ anchors at: the end, or just before one final newline
DollarEnds(s) ==
    {Len(s)} \cup (IF s # <<>> /\ s[Len(s)] = "\n" THEN {Len(s) - 1} ELSE {})

\* re.match(r'^(\d+):(\d+)$', s): the set of (group 1, group 2) pairs
ReMatch(s) ==
    { <<SubSeq(s, 1, i - 1), SubSeq(s, i + 1, e)>> :
        <<i, e>> \in { p \in (1..Len(s)) \X DollarEnds(s) :
                         /\ s[p[1]] = ":"
                         /\ AllDigits(SubSeq(s, 1, p[1] - 1))
                         /\ AllDigits(SubSeq(s, p[1] + 1, p[2])) } }

(***************************************************************************)
(* InputValidator                                                          *)
(***************************************************************************)
NumChapters == 114

CHAPTER_VERSES ==
    <<  7, 286, 200, 176, 120, 165, 206,  75, 129, 109,
      123, 111,  43,  52,  99, 128, 111, 110,  98, 135,
      112,  78, 118,  64,  77, 227,  93,  88,  69,  60,
       34,  30,  73,  54,  45,  83, 182,  88,  75,  85,
       54,  53,  89,  59,  37,  35,  38,  29,  18,  45,
       60,  49,  62,  55,  78,  96,  29,  22,  24,  13,
       14,  11,  11,  18,  12,  12,  30,  52,  52,  44,
       28,  28,  20,  56,  40,  31,  50,  40,  46,  42,
       29,  19,  36,  25,  22,  17,  19,  26,  30,  20,
       15,  21,  11,   8,   8,  19,   5,   8,   8,  11,
       11,   8,   3,   9,   5,   4,   7,   3,   6,   3,
        5,   4,   5,   6 >>

\* CHAPTER_VERSES.get(chapter): 0 stands for None (both are falsy)
ChapterVersesGet(chapter) ==
    IF chapter \in DOMAIN CHAPTER_VERSES THEN CHAPTER_VERSES[chapter] ELSE 0

\* The messages of the ValueErrors, as the f-string's literal pieces; the
\* interpolated numbers are kept beside them in "args".
MsgEmpty == <<"Input cannot be empty">>
MsgInvalidFormat ==
    <<"Invalid format. Please use ", "'chapter:verse'",
      " format (e.g., '2:255', '3:10')">>
MsgChapterRange == <<"Chapter number must be between 1 and 114. Got: ">>
MsgUnknownChapter == <<"Unknown chapter: ">>
MsgVerseRange ==
    <<"Chapter ", " has ", " verses. ",
      "Verse number must be between 1 and ", ". Got: ">>

Returned(chapter, verse) ==
    [ok |-> TRUE, chapter |-> chapter, verse |-> verse,
     text |-> <<>>, args |-> <<>>]

RaisedValueError(text, numbers) ==
    [ok |-> FALSE, chapter |-> 0, verse |-> 0, text |-> text, args |-> numbers]

\* the upper bound of the verse off by one
CheckVerse_OffByOne(chapter, verse) ==
    LET max_verses == ChapterVersesGet(chapter) IN
    IF max_verses = 0
    THEN RaisedValueError(MsgUnknownChapter, <<chapter>>)
    ELSE IF verse < 1 \/ verse > max_verses + 1
    THEN RaisedValueError(MsgVerseRange,
                          <<chapter, max_verses, max_verses, verse>>)
    ELSE Returned(chapter, verse)

CheckVerse(chapter, verse) ==
    LET max_verses == ChapterVersesGet(chapter) IN
    IF max_verses = 0
    THEN RaisedValueError(MsgUnknownChapter, <<chapter>>)
    ELSE IF verse < 1 \/ verse > max_verses
    THEN RaisedValueError(MsgVerseRange,
                          <<chapter, max_verses, max_verses, verse>>)
    ELSE Returned(chapter, verse)

CheckChapter(chapter, verse) ==
    IF chapter < 1 \/ chapter > NumChapters
    THEN RaisedValueError(MsgChapterRange, <<chapter>>)
    ELSE CheckVerse(chapter, verse)

validate_input(input) ==
    IF input = <<>>
    THEN RaisedValueError(MsgEmpty, <<>>)
    ELSE LET match == ReMatch(strip(input)) IN
         IF match = {}
         THEN RaisedValueError(MsgInvalidFormat, <<>>)
         ELSE LET m == CHOOSE g \in match : TRUE IN
              CheckChapter(int(m[1]), int(m[2]))

(***************************************************************************)
(* The inputs validate_input is tried on.  "given" records how the input   *)
(* string was written: the numbers and padding of a reference, or junk.    *)
(***************************************************************************)
Pads == UNION { [1..n -> Whitespace] : n \in 0..MaxPad }

ProbedChapters == 0..(NumChapters + ChapterOver)

ProbedVerses(c) == 0..(ChapterVersesGet(c) + VerseOver)

Zeros(n) == [i \in 1..n |-> "0"]

GivenReference(c, v, left, right, zeros) ==
    [shape |-> "reference", c |-> c, v |-> v,
     left |-> left, right |-> right, zeros |-> zeros]

ZeroPaddedChapters == {0, 1, 2, 114, 115}
ZeroPaddedVerses == {0, 1, 6, 7, 8, 286, 287}

JunkChars == {"0", "7", ":", " ", "a"}

JunkInputs == UNION { [1..n -> JunkChars] : n \in 0..MaxJunkLen }

Written(g) ==
    g.left \o Zeros(g.zeros) \o str(g.c) \o <<":">>
           \o Zeros(g.zeros) \o str(g.v) \o g.right

NoReference == [shape |-> "junk", c |-> 0, v |-> 0,
                left |-> <<>>, right |-> <<>>, zeros |-> 0]

NotRun == [ok |-> FALSE, chapter |-> 0, verse |-> 0,
           text |-> <<"(not run)">>, args |-> <<>>]

IdleValidate ==
    /\ user_input = <<>>
    /\ given = NoReference
    /\ vresult = NotRun

IdleFormat ==
    /\ verse_data = EmptyDict
    /\ output_format = ModeBoth
    /\ formatted = None

NoResponse == [outcome |-> "none", status |-> 0,
               body |-> [kind |-> "none", value |-> EmptyDict]]

IdleGetVerse ==
    /\ call = [chapter |-> 0, verse |-> 0, translation |-> None]
    /\ http_log = <<>>
    /\ arabic_response = NoResponse
    /\ trans_response = NoResponse
    /\ result = None
    /\ raised = None
    /\ stderr = <<>>

NoArgs == [verse |-> <<>>, translation |-> <<>>, format |-> <<>>,
           output |-> None]

IdleMain ==
    /\ args = NoArgs
    /\ exit_status = None
    /\ stdout = <<>>
    /\ saved = None

IdleInteractive ==
    /\ iterations = 0
    /\ translation_input = <<>>
    /\ format_input = <<>>
    /\ continue_input = <<>>
    /\ prompt_raised = None

InitValidate ==
    /\ pc = "validate"
    /\ \/ \E c \in ProbedChapters : \E v \in ProbedVerses(c) :
          \E left \in Pads, right \in Pads :
             /\ given = GivenReference(c, v, left, right, 0)
             /\ user_input = Written(given)
       \/ \E c \in ZeroPaddedChapters, v \in ZeroPaddedVerses, z \in 1..2 :
             /\ given = GivenReference(c, v, <<>>, <<>>, z)
             /\ user_input = Written(given)
       \/ /\ given = NoReference
          /\ user_input \in JunkInputs
    /\ vresult = NotRun
    /\ IdleFormat
    /\ IdleGetVerse
    /\ IdleMain
    /\ IdleInteractive
    /\ caller = "validate_input"
    /\ json_error = "requests.JSONDecodeError"

Validate ==
    /\ pc = "validate"
    /\ vresult' = validate_input(user_input)
    /\ pc' = "validated"
    /\ UNCHANGED <<user_input, given, fvars, env, gvars, stderr, stdout, mvars, ivars>>

NextValidate == Validate

SpecValidate == InitValidate /\ [][NextValidate]_vars

(***************************************************************************)
(* Properties of validate_input.                                           *)
(***************************************************************************)
InTable(c, v) == c \in 1..NumChapters /\ v \in 1..CHAPTER_VERSES[c]

\* s without its leading and trailing whitespace
Trimmed(s) ==
    LET solid == { i \in 1..Len(s) : s[i] \notin Whitespace } IN
    IF solid = {} THEN <<>>
    ELSE SubSeq(s, CHOOSE i \in solid : \A j \in solid : i <= j,
                   CHOOSE i \in solid : \A j \in solid : i >= j)

\* s reads <digits>:<digits>
HasReferenceShape(s) ==
    \E i \in 2..(Len(s) - 1) :
        /\ s[i] = ":"
        /\ \A j \in (1..Len(s)) \ {i} :
              s[j] \in {"0", "1", "2", "3", "4", "5", "6", "7", "8", "9"}

NamesPattern(text) == \E i \in 1..Len(text) : text[i] = "'chapter:verse'"

IsRangeError(r) ==
    ~r.ok /\ r.text \in {MsgChapterRange, MsgUnknownChapter, MsgVerseRange}

\* C1: every reference "c:v" with c in 1..114 and v in 1..CHAPTER_VERSES[c],
\* with or without whitespace around it, validates to exactly (c, v).
C1_ValidReferenceAccepted ==
    (pc = "validated" /\ given.shape = "reference" /\ given.zeros = 0
       /\ InTable(given.c, given.v))
    => vresult = Returned(given.c, given.v)

C1_Witness ==
    /\ pc = "validated"
    /\ given.shape = "reference" /\ given.c = 2 /\ given.v = 255
    /\ given.left # <<>> /\ given.right # <<>>
    /\ vresult.ok /\ vresult.chapter = 2 /\ vresult.verse = 255

\* C2: validate_input never returns a pair outside the table; a chapter
\* outside 1..114 fails with the chapter range error whatever the verse, and
\* a verse outside 1..CHAPTER_VERSES[chapter] fails with the range error that
\* states that chapter's verse count.
C2_OutOfRangeRejected ==
    pc = "validated" =>
       /\ vresult.ok => InTable(vresult.chapter, vresult.verse)
       /\ (given.shape = "reference" /\ given.c \notin 1..NumChapters)
            => (~vresult.ok /\ vresult.text = MsgChapterRange
                  /\ vresult.args = <<given.c>>)
       /\ (given.shape = "reference" /\ given.c \in 1..NumChapters
             /\ given.v \notin 1..CHAPTER_VERSES[given.c])
            => (~vresult.ok /\ vresult.text = MsgVerseRange
                  /\ vresult.args[1] = given.c
                  /\ vresult.args[2] = CHAPTER_VERSES[given.c]
                  /\ vresult.args[4] = given.v)

C2_Witness ==
    /\ pc = "validated"
    /\ given.shape = "reference" /\ given.c = 114 /\ given.v = 7
    /\ ~vresult.ok /\ vresult.text = MsgVerseRange /\ vresult.args[2] = 6

\* C3 as claimed: every input that, trimmed, is not <digits>:<digits> fails
\* with the format error whose message names 'chapter:verse', and no range
\* check is made on it.
C3_Claimed ==
    (pc = "validated" /\ ~HasReferenceShape(Trimmed(user_input)))
    => (~vresult.ok /\ NamesPattern(vresult.text) /\ ~IsRangeError(vresult))

\* C3 amended: the empty string fails with "Input cannot be empty", which
\* does not name the pattern; every other input that, trimmed, is not
\* <digits>:<digits> fails with the format error naming 'chapter:verse'; no
\* range check is made in either case.
C3_MalformedRejected ==
    (pc = "validated" /\ ~HasReferenceShape(Trimmed(user_input)))
    => /\ ~vresult.ok /\ ~IsRangeError(vresult)
       /\ user_input = <<>> => vresult.text = MsgEmpty
       /\ user_input # <<>>
            => (vresult.text = MsgInvalidFormat /\ NamesPattern(vresult.text))

C3_Witness ==
    /\ pc = "validated"
    /\ user_input = <<"7", ":", ":">>
    /\ vresult.text = MsgInvalidFormat

(***************************************************************************)
(* OutputFormatter.format_verse.  The result is the list of lines the code *)
(* joins with newlines; a line is the sequence of its f-string's pieces.   *)
(***************************************************************************)
Truthy(dict) == DOMAIN dict # {}

Rule == <<"============================================================">>
RTL == "\\u200F"

ArabicHeading == <<"\n Arabic Text:">>
TranslationHeading == <<"\n English Translation:">>
LocationHeading == <<"\n Location:">>

HeaderLines(verse_key, arabic) ==
    LET surah == Get(arabic, "surah", EmptyDict)
        surah_name == Get(surah, "englishName", "Unknown")
        surah_arabic == Get(surah, "name", "")
        formatted_surah_arabic ==
            IF surah_arabic # "" THEN <<RTL, surah_arabic>> ELSE <<"">>
    IN << Rule,
          <<"Verse: ">> \o verse_key \o <<" | Surah: ", surah_name, " (">>
              \o formatted_surah_arabic \o <<")">>,
          Rule >>

ArabicLines(arabic, mode) ==
    IF mode \in {ModeArabic, ModeBoth} /\ Truthy(arabic)
    THEN << ArabicHeading,
            <<RTL, Get(arabic, "text", "No Arabic text available")>> >>
         \o (IF Get(arabic, "numberInSurah", "") # ""
             THEN << <<"   - Verse ", arabic["numberInSurah"], " in Surah">> >>
             ELSE <<>>)
    ELSE <<>>

\* the translation section whatever the mode
TranslationLines_AnyMode(translation, mode) ==
    IF ~IsNone(translation) /\ Truthy(The(translation))
    THEN LET t == The(translation)
             edition_name ==
                 Get(Get(t, "edition", EmptyDict), "englishName", "Unknown")
         IN << TranslationHeading,
               <<Get(t, "text", "No translation available")>>,
               <<"   - Translation: ", edition_name>> >>
    ELSE <<>>

TranslationLines(translation, mode) ==
    IF mode \in {ModeTranslation, ModeBoth}
         /\ ~IsNone(translation) /\ Truthy(The(translation))
    THEN LET t == The(translation)
             edition_name ==
                 Get(Get(t, "edition", EmptyDict), "englishName", "Unknown")
         IN << TranslationHeading,
               <<Get(t, "text", "No translation available")>>,
               <<"   - Translation: ", edition_name>> >>
    ELSE <<>>

LocationLines(arabic) ==
    IF Truthy(arabic)
    THEN LET juz == Get(arabic, "juz", "")
             page == Get(arabic, "page", "")
         IN IF juz # "" \/ page # ""
            THEN << LocationHeading >>
                 \o (IF juz # "" THEN << <<"   - Juz (Para): ", juz>> >>
                     ELSE <<>>)
                 \o (IF page # "" THEN << <<"   - Page: ", page>> >>
                     ELSE <<>>)
            ELSE <<>>
    ELSE <<>>

format_verse(data, mode) ==
    LET arabic == Get(data, "arabic", EmptyDict)
        translation == Get(data, "translation", None)
        verse_key == Get(data, "verse_key", <<"Unknown">>)
    IN HeaderLines(verse_key, arabic)
         \o ArabicLines(arabic, mode)
         \o TranslationLines(translation, mode)
         \o LocationLines(arabic)
         \o << <<"\n">> \o Rule >>

(***************************************************************************)
(* The records format_verse is tried on: the payloads the API sends under  *)
(* 'data', with any of their fields missing.                               *)
(***************************************************************************)
SurahPayloads ==
    { [englishName |-> "Al-Faatiha", name |-> "surat-al-fatiha"],
      [englishName |-> "Al-Faatiha", name |-> ""],
      [englishName |-> "Al-Faatiha"],
      EmptyDict }

ArabicKeys == {"text", "numberInSurah", "juz", "page", "surah"}

ArabicField(k, surah) ==
    CASE k = "text" -> "bismillah"
      [] k = "numberInSurah" -> "1"
      [] k = "juz" -> "1"
      [] k = "page" -> "1"
      [] k = "surah" -> surah

ArabicPayloads ==
    { [k \in K |-> ArabicField(k, surah)] :
        K \in SUBSET ArabicKeys, surah \in SurahPayloads }

TranslationPayloads ==
    { [text |-> "In the name of Allah",
       edition |-> [englishName |-> "Saheeh International"]],
      [text |-> "In the name of Allah", edition |-> EmptyDict],
      [text |-> "In the name of Allah"],
      [edition |-> [englishName |-> "Saheeh International"]],
      EmptyDict }

FormatModes == {ModeArabic, ModeTranslation, ModeBoth}

VerseRecord(verse_key, arabic, translation) ==
    [verse_key |-> verse_key, arabic |-> arabic, translation |-> translation]

InitFormat ==
    /\ pc = "format"
    /\ \E key \in {<<"1", ":", "1">>, <<"2", ":", "2", "5", "5">>},
          arabic \in ArabicPayloads,
          translation \in {None} \cup {Some(t) : t \in TranslationPayloads} :
          verse_data = VerseRecord(key, arabic, translation)
    /\ output_format \in FormatModes
    /\ formatted = None
    /\ IdleValidate
    /\ IdleGetVerse
    /\ IdleMain
    /\ IdleInteractive
    /\ caller = "format_verse"
    /\ json_error = "requests.JSONDecodeError"

Format ==
    /\ pc = "format"
    /\ formatted' = Some(format_verse(verse_data, output_format))
    /\ pc' = "formatted"
    /\ UNCHANGED <<vvars, verse_data, output_format>>
    /\ UNCHANGED <<env, gvars, stderr, stdout, mvars, ivars>>

NextFormat == Format

SpecFormat == InitFormat /\ [][NextFormat]_vars

(***************************************************************************)
(* Properties of format_verse.                                             *)
(***************************************************************************)
HasLine(ls, line) == \E i \in 1..Len(ls) : ls[i] = line

HasTranslationData(data) ==
    /\ data.translation # None
    /\ DOMAIN data.translation[1] # {}

HasArabicData(data) == DOMAIN data.arabic # {}

\* C6: the translation section appears only in mode 'translation' or 'both'
\* and only when the record has translation data, the Arabic section only in
\* mode 'arabic' or 'both' and only when Arabic data is present; format_verse
\* returns in every case.
C6_SectionsFollowMode ==
    pc = "formatted" =>
       /\ formatted # None
       /\ HasLine(formatted[1], TranslationHeading)
            => (output_format \in {ModeTranslation, ModeBoth}
                  /\ HasTranslationData(verse_data))
       /\ HasLine(formatted[1], ArabicHeading)
            => (output_format \in {ModeArabic, ModeBoth}
                  /\ HasArabicData(verse_data))
       /\ output_format = ModeArabic
            => ~HasLine(formatted[1], TranslationHeading)
       /\ (output_format = ModeTranslation /\ ~HasTranslationData(verse_data))
            => ~HasLine(formatted[1], TranslationHeading)

C6_Witness ==
    /\ pc = "formatted"
    /\ output_format = ModeArabic
    /\ HasTranslationData(verse_data)
    /\ HasLine(formatted[1], ArabicHeading)
    /\ ~HasLine(formatted[1], TranslationHeading)

(***************************************************************************)
(* QuranAPI: the exceptions, the HTTP layer and get_verse.                 *)
(***************************************************************************)
Exc(type, msg) == [type |-> type, msg |-> msg]

\* The classes, among those the program's except clauses name, that an
\* exception of the given class is an instance of.
Bases(type) ==
    CASE type = "Timeout" -> {"Timeout", "RequestException", "IOError", "Exception"}
      [] type = "ConnectionError" ->
            {"ConnectionError", "RequestException", "IOError", "Exception"}
      [] type = "HTTPError" ->
            {"HTTPError", "RequestException", "IOError", "Exception"}
      [] type = "TooManyRedirects" -> {"RequestException", "IOError", "Exception"}
      [] type = "RequestException" -> {"RequestException", "IOError", "Exception"}
      [] type = "requests.JSONDecodeError" ->
            {"RequestException", "IOError", "json.JSONDecodeError",
             "ValueError", "Exception"}
      [] type = "json.JSONDecodeError" ->
            {"json.JSONDecodeError", "ValueError", "Exception"}
      [] type = "simplejson.JSONDecodeError" -> {"ValueError", "Exception"}
      [] type = "ValueError" -> {"ValueError", "Exception"}
      [] type = "IOError" -> {"IOError", "Exception"}
      [] type = "KeyboardInterrupt" -> {"KeyboardInterrupt"}
      [] OTHER -> {type, "Exception"}

IsInstance(e, class) == class \in Bases(e.type)

\* What response.json() raises on a body that is not JSON depends on the
\* installed requests (2.27 on: its own class, a RequestException; before:
\* the json module's or simplejson's).
JsonErrorClasses ==
    {"requests.JSONDecodeError", "json.JSONDecodeError",
     "simplejson.JSONDecodeError"}

BASE_URL == "http://api.alquran.cloud/v1"

KeySahih == <<"s", "a", "h", "i", "h">>
KeyPickthall == <<"p", "i", "c", "k", "t", "h", "a", "l", "l">>
KeyYusufAli == <<"y", "u", "s", "u", "f", "a", "l", "i">>
KeyAsad == <<"a", "s", "a", "d">>
KeyHilali == <<"h", "i", "l", "a", "l", "i">>
KeyShakir == <<"s", "h", "a", "k", "i", "r">>
KeyWahiduddin == <<"w", "a", "h", "i", "d", "u", "d", "d", "i", "n">>
KeyClearQuran == <<"c", "l", "e", "a", "r", "q", "u", "r", "a", "n">>

TRANSLATIONS ==
    {  <<KeySahih, <<"e", "n", ".", "s", "a", "h", "i", "h">>>>,
       <<KeyPickthall, <<"e", "n", ".", "p", "i", "c", "k", "t", "h", "a", "l", "l">>>>,
       <<KeyYusufAli, <<"e", "n", ".", "y", "u", "s", "u", "f", "a", "l", "i">>>>,
       <<KeyAsad, <<"e", "n", ".", "a", "s", "a", "d">>>>,
       <<KeyHilali, <<"e", "n", ".", "h", "i", "l", "a", "l", "i">>>>,
       <<KeyShakir, <<"e", "n", ".", "s", "h", "a", "k", "i", "r">>>>,
       <<KeyWahiduddin, <<"e", "n", ".", "w", "a", "h", "i", "d", "u", "d", "d", "i", "n">>>>,
       <<KeyClearQuran, <<"e", "n", ".", "c", "l", "e", "a", "r", "q", "u", "r", "a", "n">>>> }

CatalogKeys == { kv[1] : kv \in TRANSLATIONS }

get_available_translations == CatalogKeys

\* TRANSLATIONS.get(translation, translation)
TranslationsGet(translation) ==
    IF translation \in CatalogKeys
    THEN (CHOOSE kv \in TRANSLATIONS : kv[1] = translation)[2]
    ELSE translation

VerseKey(chapter, verse) == str(chapter) \o <<":">> \o str(verse)

ArabicUrl(chapter, verse) ==
    <<BASE_URL, "/ayah/">> \o VerseKey(chapter, verse)

TranslationUrl(chapter, verse, translation) ==
    <<BASE_URL, "/ayah/">> \o VerseKey(chapter, verse)
        \o <<"/">> \o TranslationsGet(translation)

\* session.get(url, timeout=10) and raise_for_status(): what _make_request
\* returns or raises for what the request met
MakeRequestRaises(resp) ==
    CASE resp.outcome = "OK" -> None
      [] resp.outcome = "Timeout" ->
            Some(Exc("RequestException",
                     <<"Request timed out. Please check your internet connection.">>))
      [] resp.outcome = "ConnectionError" ->
            Some(Exc("RequestException",
                     <<"Connection error. Please check your internet connection.">>))
      [] resp.outcome = "HTTPError" ->
            Some(Exc("RequestException",
                IF resp.status = 404
                THEN <<"Verse not found. Please check chapter and verse numbers.">>
                ELSE IF resp.status = 429
                THEN <<"Too many requests. Please wait a moment and try again.">>
                ELSE <<"HTTP error ">> \o str(resp.status) \o <<": ", "HTTPError">>))
      [] OTHER -> Some(Exc(resp.outcome, <<resp.outcome>>))

\* the except clauses that close get_verse's outer try
OuterHandler(e) ==
    IF IsInstance(e, "RequestException")
    THEN Exc("RequestException",
             <<"Network error while fetching verse: ">> \o e.msg)
    ELSE IF IsInstance(e, "json.JSONDecodeError")
    THEN Exc("ValueError", <<"Invalid JSON response from API: ">> \o e.msg)
    ELSE e

CodeIs200(envelope) == "code" \in DOMAIN envelope /\ envelope["code"] = 200

Outcome(exc, rec, warnings) ==
    [raised |-> exc, result |-> rec, warnings |-> warnings]

\* response.json() and .get('code') on a body: the exception, if any
DecodeRaises(resp, jsonerr) ==
    IF resp.body.kind = "text"
    THEN Some(Exc(jsonerr, <<"Expecting value">>))
    ELSE IF resp.body.kind # "object"
    THEN Some(Exc("AttributeError", <<"object has no attribute 'get'">>))
    ELSE None

\* get_verse up to the record with the Arabic data (or the exception)
ArabicPhase(chapter, verse, resp, jsonerr) ==
    LET failed == MakeRequestRaises(resp)
        undecoded == DecodeRaises(resp, jsonerr)
        arabic_data == resp.body.value
    IN IF failed # None
       THEN Outcome(Some(OuterHandler(The(failed))), None, <<>>)
       ELSE IF undecoded # None
       THEN Outcome(Some(OuterHandler(The(undecoded))), None, <<>>)
       ELSE IF ~CodeIs200(arabic_data)
       THEN Outcome(Some(OuterHandler(Exc("ValueError",
                <<"API Error: ", Get(arabic_data, "status", "Unknown error")>>))),
                None, <<>>)
       ELSE IF "data" \notin DOMAIN arabic_data
       THEN Outcome(Some(OuterHandler(Exc("KeyError", <<"'data'">>))),
                    None, <<>>)
       ELSE Outcome(None,
                    Some(VerseRecord(VerseKey(chapter, verse),
                                     arabic_data["data"], None)),
                    <<>>)

\* "if translation is not None:" where the code has "if translation:"
Supplied_NotNone(translation) == translation # None

\* "if translation:" of an Optional[str]
Supplied(translation) == translation # None /\ The(translation) # <<>>

WarnRequestFailed(e) == <<"Warning: Translation request failed: ">> \o e.msg

WarnNotFetched(translation) ==
    <<"Warning: Could not fetch translation '">> \o translation
        \o <<"'. Using Arabic only.">>

\* the except clause of the inner try, around the translation request
InnerHandler(e, rec) ==
    IF IsInstance(e, "RequestException")
    THEN Outcome(None, Some(rec), <<WarnRequestFailed(e)>>)
    ELSE Outcome(Some(OuterHandler(e)), None, <<>>)

\* get_verse from the translation request to its return
TranslationPhase(rec, translation, resp, jsonerr) ==
    LET failed == MakeRequestRaises(resp)
        undecoded == DecodeRaises(resp, jsonerr)
        trans_data == resp.body.value
    IN IF failed # None
       THEN InnerHandler(The(failed), rec)
       ELSE IF undecoded # None
       THEN InnerHandler(The(undecoded), rec)
       ELSE IF CodeIs200(trans_data)
       THEN IF "data" \in DOMAIN trans_data
            THEN Outcome(None,
                         Some([rec EXCEPT !.translation = Some(trans_data["data"])]),
                         <<>>)
            ELSE InnerHandler(Exc("KeyError", <<"'data'">>), rec)
       ELSE Outcome(None, Some(rec), <<WarnNotFetched(translation)>>)

(***************************************************************************)
(* What a request can meet.                                                *)
(***************************************************************************)
Met(outcome, status, kind, value) ==
    [outcome |-> outcome, status |-> status,
     body |-> [kind |-> kind, value |-> value]]

FailedRequests ==
    { Met(o, 0, "none", EmptyDict) :
        o \in {"Timeout", "ConnectionError", "TooManyRedirects",
               "KeyboardInterrupt"} }
    \cup { Met("HTTPError", st, "none", EmptyDict) : st \in {404, 429, 500} }

Envelopes(payloads) ==
    { [code |-> 200, status |-> "OK", data |-> d] : d \in payloads }
    \cup { [code |-> 200, status |-> "OK"],
           [code |-> 404, status |-> "Not Found"],
           EmptyDict }

Responses(payloads) ==
    FailedRequests
    \cup { Met("OK", 200, "text", EmptyDict), Met("OK", 200, "array", EmptyDict) }
    \cup { Met("OK", 200, "object", e) : e \in Envelopes(payloads) }

FullArabic ==
    [k \in ArabicKeys |->
        ArabicField(k, [englishName |-> "Al-Faatiha", name |-> "surat-al-fatiha"])]

FullTranslation ==
    [text |-> "In the name of Allah",
     edition |-> [englishName |-> "Saheeh International"]]

ArabicResponses == Responses({FullArabic, EmptyDict})

TranslationResponses == Responses({FullTranslation})

(***************************************************************************)
(* get_verse as the program runs it: one step per HTTP request.            *)
(***************************************************************************)
GetVerseArabic ==
    /\ pc = "gv_arabic"
    /\ \E resp \in ArabicResponses :
         LET out == ArabicPhase(call.chapter, call.verse, resp, json_error) IN
         /\ arabic_response' = resp
         /\ http_log' = Append(http_log, ArabicUrl(call.chapter, call.verse))
         /\ result' = out.result
         /\ raised' = out.raised
         /\ pc' = IF out.raised # None THEN "gv_raised"
                  ELSE IF Supplied(call.translation) THEN "gv_translation"
                  ELSE "gv_returned"
    /\ stderr' = <<>>
    /\ stdout' = <<>>
    /\ UNCHANGED <<env, vvars, fvars, call, trans_response, mvars, ivars>>

GetVerseTranslation ==
    /\ pc = "gv_translation"
    /\ \E resp \in TranslationResponses :
         LET out == TranslationPhase(The(result), The(call.translation),
                                     resp, json_error) IN
         /\ trans_response' = resp
         /\ http_log' = Append(http_log,
                TranslationUrl(call.chapter, call.verse, The(call.translation)))
         /\ result' = out.result
         /\ raised' = out.raised
         /\ stderr' = out.warnings
         /\ pc' = IF out.raised # None THEN "gv_raised" ELSE "gv_returned"
    /\ stdout' = <<>>
    /\ UNCHANGED <<env, vvars, fvars, call, arabic_response, mvars, ivars>>

CustomEdition == <<"e", "n", ".", "i", "t", "a", "n", "i">>

CallReferences == {<<1, 1>>, <<2, 255>>, <<114, 6>>}

CallTranslations ==
    {None, Some(<<>>), Some(KeySahih), Some(KeyPickthall), Some(CustomEdition)}

InitGetVerse ==
    /\ pc = "gv_arabic"
    /\ caller = "get_verse"
    /\ json_error \in JsonErrorClasses
    /\ \E ref \in CallReferences, t \in CallTranslations :
          call = [chapter |-> ref[1], verse |-> ref[2], translation |-> t]
    /\ http_log = <<>>
    /\ arabic_response = NoResponse
    /\ trans_response = NoResponse
    /\ result = None
    /\ raised = None
    /\ stderr = <<>>
    /\ IdleValidate
    /\ IdleFormat
    /\ IdleMain
    /\ IdleInteractive

NextGetVerse == GetVerseArabic \/ GetVerseTranslation

SpecGetVerse == InitGetVerse /\ [][NextGetVerse]_vars

(***************************************************************************)
(* Properties of get_verse.                                                *)
(***************************************************************************)
RequestFailed(resp) ==
    resp.outcome \in {"Timeout", "ConnectionError", "TooManyRedirects", "HTTPError"}

\* the request came back, but not with a code-200 envelope holding data
PayloadBad(resp) ==
    /\ resp.outcome = "OK"
    /\ \/ resp.body.kind # "object"
       \/ ~("code" \in DOMAIN resp.body.value /\ resp.body.value["code"] = 200)
       \/ "data" \notin DOMAIN resp.body.value

FetchFailed(resp) == RequestFailed(resp) \/ PayloadBad(resp)

FetchSucceeded(resp) == resp.outcome = "OK" /\ ~PayloadBad(resp)

GetVerseEnded == pc \in {"gv_returned", "gv_raised"}

\* C4: when the Arabic request succeeds and a translation key is supplied,
\* every failure of the translation fetch is non-fatal: get_verse returns the
\* record with the Arabic data and no translation, and warns on stderr.
C4_TranslationFailureNonFatal ==
    (caller = "get_verse" /\ GetVerseEnded /\ FetchSucceeded(arabic_response)
       /\ Supplied(call.translation) /\ FetchFailed(trans_response))
    => /\ pc = "gv_returned"
       /\ raised = None
       /\ result = Some(VerseRecord(VerseKey(call.chapter, call.verse),
                                    arabic_response.body.value["data"], None))
       /\ stderr # <<>>

\* C9: one call of get_verse issues at most two requests and repeats none:
\* the Arabic one first, the translation one only when a translation key was
\* supplied and the Arabic request came back with code 200; a failed request
\* is the call's last.
C9_AtMostTwoRequests ==
    caller = "get_verse" =>
       /\ Len(http_log) <= 2
       /\ pc # "gv_arabic" => Len(http_log) >= 1
       /\ Len(http_log) >= 1
            => http_log[1] = <<BASE_URL, "/ayah/">>
                               \o str(call.chapter) \o <<":">> \o str(call.verse)
       /\ Len(http_log) = 2
            => /\ call.translation # None /\ call.translation[1] # <<>>
               /\ FetchSucceeded(arabic_response)
               /\ http_log[2] # http_log[1]
               /\ SubSeq(http_log[2], 1, Len(http_log[1]) + 1)
                    = http_log[1] \o <<"/">>
       /\ (Len(http_log) = 1 /\ FetchFailed(arabic_response))
            => pc = "gv_raised"
       /\ (Len(http_log) = 2 /\ FetchFailed(trans_response)) => GetVerseEnded

C9_Witness ==
    /\ caller = "get_verse"
    /\ Len(http_log) = 2
    /\ RequestFailed(trans_response)
    /\ pc = "gv_returned"

(***************************************************************************)
(* main, one-shot: validate, fetch, format, then print or save.            *)
(***************************************************************************)
LabelInput == "Input Error: "
LabelNetwork == "Network Error: "
LabelCancelled == "\nOperation cancelled by user."
LabelUnexpected == "Unexpected Error: "

\* the except clauses that close main's try, in their order
MainHandler(e) ==
    IF IsInstance(e, "ValueError")
    THEN << <<LabelInput>> \o e.msg, <<"Use --help for usage information.">> >>
    ELSE IF IsInstance(e, "RequestException")
    THEN << <<LabelNetwork>> \o e.msg,
            <<"Please check your internet connection and try again.">> >>
    ELSE IF IsInstance(e, "KeyboardInterrupt")
    THEN << <<LabelCancelled>> >>
    ELSE << <<LabelUnexpected>> \o e.msg,
            <<"Please try again or report this issue.">> >>

\* the message of the ValueError validate_input raised
ValueErrorOf(r) == Exc("ValueError", r.text)

\* "translation = args.translation if args.format in [...] else None"
MainTranslation(a) ==
    IF a.format \in {ModeTranslation, ModeBoth} THEN Some(a.translation) ELSE None

MainStart ==
    /\ pc = "m_start"
    /\ IF args.verse = <<>>
       THEN \* parser.error(...): usage message, exit status 2
            /\ stderr' = << <<"error: the following arguments are required: verse">> >>
            /\ exit_status' = Some(2)
            /\ pc' = "m_exit"
            /\ UNCHANGED <<vresult, call>>
       ELSE LET r == validate_input(args.verse) IN
            /\ vresult' = r
            /\ IF r.ok
               THEN /\ call' = [chapter |-> r.chapter, verse |-> r.verse,
                                translation |-> MainTranslation(args)]
                    /\ stderr' = << <<"Fetching verse ">>
                                       \o VerseKey(r.chapter, r.verse) \o <<"...">> >>
                    /\ pc' = "gv_arabic"
                    /\ UNCHANGED exit_status
               ELSE /\ stderr' = MainHandler(ValueErrorOf(r))
                    /\ exit_status' = Some(1)
                    /\ pc' = "m_exit"
                    /\ UNCHANGED call
    /\ user_input' = args.verse
    /\ stdout' = <<>>
    /\ UNCHANGED <<env, given, fvars, http_log, arabic_response, trans_response,
                   result, raised, args, saved, ivars>>

\* OutputFormatter.save_to_file: the file is written and True returned, or
\* open/write raises IOError, which is reported and False returned
save_to_file(content, filename, writable) ==
    IF writable
    THEN [ok |-> TRUE, file |-> Some(content), err |-> <<>>]
    ELSE [ok |-> FALSE, file |-> None,
          err |-> << <<"Error saving to file '", filename, "': ", "IOError">> >>]

\* after get_verse returned: format_verse, then save_to_file or print
MainFetched ==
    /\ pc = "gv_returned" /\ caller = "main"
    /\ verse_data' = The(result)
    /\ output_format' = args.format
    /\ formatted' = Some(format_verse(The(result), args.format))
    /\ IF args.output # None
       THEN \E writable \in BOOLEAN :
              LET done == save_to_file(The(formatted'), The(args.output), writable)
              IN IF done.ok
                 THEN /\ saved' = done.file
                      /\ stderr' = << <<"Verse saved to '", The(args.output), "'">> >>
                      /\ exit_status' = Some(0)
                      /\ stdout' = <<>>
                 ELSE /\ stderr' = done.err
                      /\ exit_status' = Some(1)
                      /\ stdout' = <<>>
                      /\ UNCHANGED saved
       ELSE /\ stdout' = The(formatted')
            /\ stderr' = <<>>
            /\ exit_status' = Some(0)
            /\ UNCHANGED saved
    /\ pc' = "m_exit"
    /\ UNCHANGED <<env, vvars, gvars, args, ivars>>

\* after get_verse raised: the matching except clause, then sys.exit(1)
MainFetchFailed ==
    /\ pc = "gv_raised" /\ caller = "main"
    /\ stderr' = MainHandler(The(raised))
    /\ stdout' = <<>>
    /\ exit_status' = Some(1)
    /\ pc' = "m_exit"
    /\ UNCHANGED <<env, vvars, fvars, gvars, args, saved, ivars>>

MainVerses ==
    { <<>>, <<"2", ":", "2", "5", "5">>, <<" ", "1", ":", "1">>, <<"1", "1", "4", ":", "7">>,
      <<"a", "b", "c">> }

InitMain ==
    /\ pc = "m_start"
    /\ caller = "main"
    /\ json_error \in JsonErrorClasses
    /\ \E v \in MainVerses, t \in {KeySahih, KeyYusufAli}, f \in FormatModes,
          o \in {None, Some("verse.txt")} :
          args = [verse |-> v, translation |-> t, format |-> f, output |-> o]
    /\ exit_status = None
    /\ stdout = <<>>
    /\ saved = None
    /\ IdleValidate
    /\ IdleFormat
    /\ IdleGetVerse
    /\ IdleInteractive

NextMain ==
    MainStart \/ GetVerseArabic \/ GetVerseTranslation \/ MainFetched
       \/ MainFetchFailed

SpecMain == InitMain /\ [][NextMain]_vars

(***************************************************************************)
(* Properties of the one-shot run.                                         *)
(***************************************************************************)
Labelled(label) == \E i \in 1..Len(stderr) : stderr[i][1] = label

Cancelled ==
    "KeyboardInterrupt" \in {arabic_response.outcome, trans_response.outcome}

\* C5: every failure of the mandatory Arabic fetch reaches main as the one
\* upstream-failure kind: it is reported under the network label, not the
\* input or the unexpected one, and the exit status is 1.
C5_ArabicFailureIsNetworkError ==
    (caller = "main" /\ pc = "m_exit" /\ FetchFailed(arabic_response))
    => /\ exit_status = Some(1)
       /\ Labelled(LabelNetwork)
       /\ ~Labelled(LabelInput)
       /\ ~Labelled(LabelUnexpected)

\* C7: a one-shot run with a reference exits 0 exactly when validation, the
\* Arabic fetch, formatting and the file write (if asked for) all succeed and
\* nobody cancels, and exits 1 otherwise; a failed translation fetch alone
\* leaves the status 0.
C7_ExitStatus ==
    (caller = "main" /\ pc = "m_exit" /\ args.verse # <<>>)
    => LET succeeded ==
               /\ vresult.ok
               /\ FetchSucceeded(arabic_response)
               /\ ~Cancelled
               /\ args.output # None => saved # None
       IN /\ exit_status \in {Some(0), Some(1)}
          /\ exit_status = Some(0) <=> succeeded

(***************************************************************************)
(* run_interactive_mode: the prompt loop.                                  *)
(***************************************************************************)
MaxIterations == 2  \* passes of the loop a behaviour may begin

UpperChars == <<"A", "B", "C", "D", "E", "F", "G", "H", "I", "J", "K", "L", "M", "N", "O", "P", "Q", "R", "S", "T", "U", "V", "W", "X", "Y", "Z">>
LowerChars == <<"a", "b", "c", "d", "e", "f", "g", "h", "i", "j", "k", "l", "m", "n", "o", "p", "q", "r", "s", "t", "u", "v", "w", "x", "y", "z">>

\* str.lower()
lower(text) ==
    [i \in 1..Len(text) |->
        IF \E k \in 1..26 : UpperChars[k] = text[i]
        THEN LowerChars[CHOOSE k \in 1..26 : UpperChars[k] = text[i]]
        ELSE text[i]]

QuitWords == {<<"q", "u", "i", "t">>, <<"e", "x", "i", "t">>, <<"q">>}
ListWord == <<"l", "i", "s", "t">>
HelpWord == <<"h", "e", "l", "p">>
NoWords == {<<"n">>, <<"n", "o">>, <<"q", "u", "i", "t">>, <<"e", "x", "i", "t">>}

Farewell == <<"\n Thank you for using Quran Verse Fetcher! May Allah bless you.">>
FarewellInterrupted ==
    <<"\n\n Thank you for using Quran Verse Fetcher! May Allah bless you.">>

\* what the "except Exception" clause of the loop prints
ErrorReport(e) ==
    << <<" An error occurred: ">> \o e.msg, <<"Please try again.\n">> >>

\* what the "except ValueError" clause around validate_input prints
ValidationReport(r) ==
    << <<" Error: ">> \o r.text, <<"Please use format 'chapter:verse' (e.g., '2:255')\n">> >>

\* the answer taken without the catalog check
ChooseTranslation_Unchecked(answer) ==
    IF answer # <<>> THEN answer ELSE KeySahih

\* "translation_input if translation_input else 'sahih'", then the catalog check
ChooseTranslation(answer) ==
    LET translation == IF answer # <<>> THEN answer ELSE KeySahih IN
    IF translation \notin get_available_translations THEN KeySahih
    ELSE translation

\* "format_input if format_input in [...] else 'both'"
ChooseFormat(answer) ==
    IF answer \in {ModeArabic, ModeTranslation, ModeBoth} THEN answer
    ELSE ModeBoth

\* a loop that every exception ends
LoopHandler_BreakOnError(e) ==
    IF IsInstance(e, "KeyboardInterrupt")
    THEN [pc |-> "i_done", printed |-> <<FarewellInterrupted>>]
    ELSE [pc |-> "i_done", printed |-> ErrorReport(e)]

\* Where the loop goes when the try body raises e: the two except clauses
LoopHandler(e) ==
    IF IsInstance(e, "KeyboardInterrupt")
    THEN [pc |-> "i_done", printed |-> <<FarewellInterrupted>>]
    ELSE [pc |-> "i_verse", printed |-> ErrorReport(e)]

\* input() either returns the line typed or raises
Typed(text) == [raises |-> None, text |-> text]
InputRaises(type) == [raises |-> Some(Exc(type, <<type>>)), text |-> <<>>]
Inputs(answers) ==
    { Typed(a) : a \in answers }
       \cup { InputRaises("KeyboardInterrupt"), InputRaises("EOFError") }

VerseAnswers ==
    { <<"q", "u", "i", "t">>, <<" ", "Q">>, <<"E", "x", "i", "t">>, <<"l", "i", "s", "t">>, <<"H", "E", "L", "P">>, <<"2", ":", "2", "5", "5">>, <<" ", "0", "1", ":", "1", " ">>, <<"1", "1", "4", ":", "7">>, <<"a", "b", "c">>, <<>> }

TranslationAnswers ==
    { <<>>, <<" ", "a", "s", "a", "d">>, <<"S", "a", "h", "i", "h">>, <<"e", "n", ".", "i", "t", "a", "n", "i">> }

FormatAnswers ==
    { <<>>, <<"a", "r", "a", "b", "i", "c", " ">>, <<"t", "r", "a", "n", "s", "l", "a", "t", "i", "o", "n">>, <<"B", "o", "t", "h">>, <<"x", "m", "l">> }

ContinueAnswers ==
    { <<"y">>, <<>>, <<" ", "N">>, <<"n", "o">>, <<"q">>, <<"E", "X", "I", "T">> }

\* The locals a pass binds after the reference prompt, as they are before
\* the pass binds them.  Every pass binds each of them before it reads it.
FreshPass ==
    /\ translation_input' = <<>>
    /\ format_input' = <<>>
    /\ continue_input' = <<>>
    /\ call' = [chapter |-> 0, verse |-> 0, translation |-> None]
    /\ http_log' = <<>>
    /\ arabic_response' = NoResponse
    /\ trans_response' = NoResponse
    /\ result' = None
    /\ raised' = None
    /\ verse_data' = EmptyDict
    /\ output_format' = ModeBoth
    /\ formatted' = None

\* the try body raised e: report and go where the except clauses say
Handle(e) ==
    /\ pc' = LoopHandler(e).pc
    /\ stdout' = LoopHandler(e).printed
    /\ FreshPass

\* "continue": back to the top of the loop
Continue(printed) ==
    /\ pc' = "i_verse"
    /\ stdout' = printed
    /\ FreshPass

\* "break": the loop ends and the locals stay as they are
Break(printed) ==
    /\ pc' = "i_done"
    /\ stdout' = printed

\* input("\n Verse: ") and the dispatch on what was typed
VersePrompt ==
    /\ pc = "i_verse"
    /\ iterations < MaxIterations
    /\ iterations' = iterations + 1
    /\ \E in \in Inputs(VerseAnswers) :
         /\ prompt_raised' = in.raises
         /\ IF in.raises # None
            THEN /\ Handle(The(in.raises))
                 /\ UNCHANGED <<user_input, vresult>>
            ELSE LET typed == strip(in.text)
                     r == validate_input(typed)
                 IN /\ user_input' = typed
                    /\ IF lower(typed) \in QuitWords
                       THEN /\ Break(<<Farewell>>)
                            /\ UNCHANGED <<vresult, fvars, gvars, translation_input,
                                           format_input, continue_input>>
                       ELSE IF lower(typed) = ListWord
                       THEN /\ Continue(<<<<"\n Available translations:">>>>)
                            /\ UNCHANGED vresult
                       ELSE IF lower(typed) = HelpWord
                       THEN /\ Continue(<<<<"\n Examples:">>>>)
                            /\ UNCHANGED vresult
                       ELSE IF ~r.ok
                       THEN /\ Continue(ValidationReport(r))
                            /\ vresult' = r
                       ELSE /\ vresult' = r
                            /\ pc' = "i_translation"
                            /\ stdout' = <<>>
                            /\ UNCHANGED <<fvars, gvars, translation_input,
                                           format_input, continue_input>>
    /\ stderr' = <<>>
    /\ UNCHANGED <<env, given, mvars>>

\* input("Translation: ") and the choice of the translation key
TranslationPrompt ==
    /\ pc = "i_translation"
    /\ \E in \in Inputs(TranslationAnswers) :
         /\ prompt_raised' = in.raises
         /\ IF in.raises # None
            THEN /\ Handle(The(in.raises))
                 /\ UNCHANGED <<user_input, vresult>>
            ELSE /\ translation_input' = strip(in.text)
                 /\ call' = [chapter |-> vresult.chapter, verse |-> vresult.verse,
                             translation |-> Some(ChooseTranslation(strip(in.text)))]
                 /\ stdout' = IF strip(in.text) # <<>>
                                   /\ strip(in.text) \notin get_available_translations
                              THEN <<<<" Unknown translation '">> \o strip(in.text)
                                        \o <<"', using 'sahih' instead.">>>>
                              ELSE <<>>
                 /\ pc' = "i_format"
                 /\ UNCHANGED <<user_input, vresult, fvars, http_log,
                                arabic_response, trans_response, result, raised,
                                format_input, continue_input>>
    /\ stderr' = <<>>
    /\ UNCHANGED <<env, given, mvars, iterations>>

\* input("Format: "), the choice of the mode, and the call of get_verse
FormatPrompt ==
    /\ pc = "i_format"
    /\ \E in \in Inputs(FormatAnswers) :
         /\ prompt_raised' = in.raises
         /\ IF in.raises # None
            THEN /\ Handle(The(in.raises))
                 /\ UNCHANGED <<user_input, vresult>>
            ELSE /\ format_input' = strip(in.text)
                 /\ output_format' = ChooseFormat(strip(in.text))
                 /\ stdout' = <<<<"\n Fetching verse ">>
                                  \o VerseKey(call.chapter, call.verse) \o <<"...">>>>
                 /\ pc' = "gv_arabic"
                 /\ UNCHANGED <<user_input, vresult, verse_data, formatted,
                                gvars, translation_input, continue_input>>
    /\ stderr' = <<>>
    /\ UNCHANGED <<env, given, mvars, iterations>>

\* get_verse returned: format_verse and print
InteractiveFetched ==
    /\ pc = "gv_returned" /\ caller = "interactive"
    /\ verse_data' = The(result)
    /\ formatted' = Some(format_verse(The(result), output_format))
    /\ stdout' = The(formatted')
    /\ stderr' = <<>>
    /\ pc' = "i_continue"
    /\ UNCHANGED <<env, vvars, output_format, gvars, mvars, ivars>>

\* get_verse raised: the loop's except clauses
InteractiveFetchFailed ==
    /\ pc = "gv_raised" /\ caller = "interactive"
    /\ Handle(The(raised))
    /\ stderr' = <<>>
    /\ UNCHANGED <<env, vvars, mvars, iterations, prompt_raised>>

\* input("Continue: ")
ContinuePrompt ==
    /\ pc = "i_continue"
    /\ \E in \in Inputs(ContinueAnswers) :
         /\ prompt_raised' = in.raises
         /\ IF in.raises # None
            THEN Handle(The(in.raises))
            ELSE IF lower(strip(in.text)) \in NoWords
            THEN /\ Break(<<Farewell>>)
                 /\ continue_input' = lower(strip(in.text))
                 /\ UNCHANGED <<fvars, gvars, translation_input, format_input>>
            ELSE Continue(<<<<"">>>>)
    /\ stderr' = <<>>
    /\ UNCHANGED <<env, vvars, mvars, iterations>>

InitInteractive ==
    /\ pc = "i_verse"
    /\ caller = "interactive"
    /\ json_error \in JsonErrorClasses
    /\ IdleValidate
    /\ IdleFormat
    /\ IdleGetVerse
    /\ IdleMain
    /\ IdleInteractive

NextInteractive ==
    VersePrompt \/ TranslationPrompt \/ FormatPrompt \/ GetVerseArabic
       \/ GetVerseTranslation \/ InteractiveFetched \/ InteractiveFetchFailed
       \/ ContinuePrompt

SpecInteractive == InitInteractive /\ [][NextInteractive]_vars

(***************************************************************************)
(* Properties of the interactive loop.                                     *)
(***************************************************************************)
Interrupt == Some(Exc("KeyboardInterrupt", <<"KeyboardInterrupt">>))

Prompts == {"i_verse", "i_translation", "i_format", "i_continue"}

Fetching == {"gv_arabic", "gv_translation", "gv_returned", "gv_raised"}

IsCommand(typed) ==
    lower(typed) \in {<<"q", "u", "i", "t">>, <<"e", "x", "i", "t">>, <<"q">>, <<"l", "i", "s", "t">>, <<"h", "e", "l", "p">>}

IsValidReference(typed) ==
    /\ HasReferenceShape(typed)
    /\ vresult.ok /\ InTable(vresult.chapter, vresult.verse)
    /\ LET colon == CHOOSE i \in 1..Len(typed) : typed[i] = ":" IN
       /\ int(SubSeq(typed, 1, colon - 1)) = vresult.chapter
       /\ int(SubSeq(typed, colon + 1, Len(typed))) = vresult.verse

Reported(printed, heading) == printed # <<>> /\ printed[1][1] = heading

\* C8: the loop ends only by quit/exit/q at the reference prompt, by a
\* negative answer at the continue prompt, or by an interrupt; a validation
\* failure, a failed fetch or any other exception at any prompt is reported
\* and the loop is back at the reference prompt.
C8_LoopSurvivesFailures ==
    [][ caller = "interactive" =>
          /\ (pc # "i_done" /\ pc' = "i_done")
               => \/ /\ pc = "i_verse" /\ prompt_raised' = None
                     /\ lower(user_input') \in QuitWords
                  \/ /\ pc = "i_continue" /\ prompt_raised' = None
                     /\ continue_input' \in NoWords
                  \/ pc \in Prompts /\ prompt_raised' = Interrupt
                  \/ pc = "gv_raised" /\ raised = Interrupt
          /\ (pc = "gv_raised" /\ raised # Interrupt)
               => (pc' = "i_verse" /\ Reported(stdout', " An error occurred: "))
          /\ (pc \in Prompts /\ prompt_raised' \notin {None, Interrupt})
               => (pc' = "i_verse" /\ Reported(stdout', " An error occurred: "))
          /\ (pc = "i_verse" /\ iterations' = iterations + 1
                /\ prompt_raised' = None /\ ~IsCommand(user_input')
                /\ ~HasReferenceShape(user_input'))
               => (pc' = "i_verse" /\ Reported(stdout', " Error: "))
          /\ (pc = "i_verse" /\ iterations' = iterations + 1
                /\ prompt_raised' = None /\ HasReferenceShape(user_input')
                /\ ~vresult'.ok)
               => (pc' = "i_verse" /\ Reported(stdout', " Error: "))
      ]_vars

C8_Witness ==
    /\ caller = "interactive"
    /\ pc = "i_verse"
    /\ iterations = 1
    /\ arabic_response = NoResponse
    /\ Reported(stdout, " An error occurred: ")
    /\ prompt_raised = None

\* C10: in interactive mode only a valid reference, never a command, reaches
\* the translation and format prompts or a fetch; the fetch uses the answer
\* at the translation prompt if it is a catalog key and 'sahih' otherwise,
\* and the answer at the format prompt if it is arabic, translation or both
\* and 'both' otherwise.
C10_FetchUsesCatalogKeyAndMode ==
    caller = "interactive" =>
       /\ (pc \in {"i_translation", "i_format", "i_continue"} \cup Fetching
             \/ http_log # <<>>)
            => (~IsCommand(user_input) /\ IsValidReference(user_input))
       /\ (pc \in Fetching \/ http_log # <<>>)
            => /\ call.chapter = vresult.chapter /\ call.verse = vresult.verse
               /\ call.translation # None
               /\ call.translation[1] \in CatalogKeys
               /\ call.translation[1] =
                    IF translation_input \in CatalogKeys THEN translation_input
                    ELSE KeySahih
               /\ output_format \in {ModeArabic, ModeTranslation, ModeBoth}
               /\ output_format =
                    IF format_input \in {ModeArabic, ModeTranslation, ModeBoth}
                    THEN format_input ELSE ModeBoth

C10_Witness ==
    /\ caller = "interactive"
    /\ pc = "gv_arabic"
    /\ translation_input = CustomEdition
    /\ call.translation = Some(KeySahih)
    /\ format_input = <<"x", "m", "l">>
    /\ output_format = ModeBoth

====
